---- MODULE Spec2Model ----
(***************************************************************************)
(* Campaign delivery worker of whatomate (internal/worker/worker.go).      *)
(*                                                                         *)
(* One campaign, its recipients, the contacts and messages of its          *)
(* organization, one worker running Worker.processCampaign one job at a    *)
(* time, and the outside world: the management API pausing, cancelling and *)
(* re-queuing the campaign, the process context being cancelled, the queue *)
(* delivering (and redelivering) the campaign's job.                       *)
(*                                                                         *)
(* processCampaign is cut at its store and gateway calls: every action of  *)
(* the worker is one such call together with the local computation that    *)
(* follows it up to the next call, so that the outside world can act       *)
(* between any two calls, as it can in the program.                        *)
(*                                                                         *)
(* Store calls whose error the code looks at (loading the campaign, the    *)
(* account and the recipients, creating a contact or a message) may fail.  *)
(* Store calls whose result it discards (the Update/Updates of campaign    *)
(* and recipient rows, the status re-read at :128) are taken to succeed.   *)
(* The worker does not crash inside a run: every run ends at one of        *)
(* processCampaign's return statements.                                    *)
(***************************************************************************)
EXTENDS Integers, Sequences, FiniteSets, TLC

\* ------------------------------------------------------------- bounds

\* Recipients of the campaign, numbered in the order the store returns them.
NumRecipients == 3

\* Jobs the queue delivers for the campaign (first delivery, redeliveries,
\* deliveries after a re-queue).
MaxJobs == 3

Recipients == 1 .. NumRecipients

\* Calls of getOrCreateContact made on its own, and contacts the store
\* holds before the first of them.
MaxCalls == 3

MaxStored == 2

\* Pieces a template body is put together from.
MaxPieces == 2

\* worker.go:169  the highest positional parameter the worker looks at
MaxTemplateParams == 10

\* ------------------------------------------------------------- data

\* A phone number is a sequence of characters.  Odd recipients write theirs
\* with a leading "+", even ones without; recipients 1 and 2 share a number.
Digits == <<"1", "2", "3", "4">>

PhoneNumber(r) ==
    IF r % 2 = 1 THEN <<"+", Digits[(r + 1) \div 2]>>
                 ELSE <<Digits[(r + 1) \div 2]>>

\* Error texts the gateway client returns (pkg/whatsapp, not in src/).
GatewayErrors == {"rate limited"}

\* models.BulkMessageRecipient as the campaign's creator leaves it.
PendingRecipient ==
    [status |-> "pending", error_message |-> "", whats_app_message_id |-> "",
     sent_at |-> FALSE]

\* The zero value of the loop's local models.Message.
NoMessage == [status |-> "", error_message |-> ""]

VARIABLES
    \* the store: bulk_message_campaigns row
    campStatus, campSent, campFailed, completedAt,
    \* the store: bulk_message_recipients, contacts (phone numbers; a
    \* contact's id is its position), messages
    recipients, contacts, messages,
    \* the world: gateway sends made, snapshots handed to the publisher,
    \* the process context, jobs delivered so far
    sends, published, ctxDone, jobs,
    \* processCampaign: position, return site, locals
    pc, exit, sentCount, failedCount, list, idx, contact, waMessageID, message,
    \* history: the store as the running job found it, and how often each
    \* recipient row was written by the worker
    start, writes,
    \* getOrCreateContact called on its own: the calls made so far, each
    \* with the phone number given and the contact returned
    calls,
    \* the rendering of message.Content (:163-178) on its own: template
    \* body, recipient.TemplateParams, and the content once rendered
    render,
    \* Worker.Run and handleCampaignJob around processCampaign: where Run
    \* is, what Consume returned, whether ctx was cancelled when it did,
    \* what Run returned, what the handler returned for the last job
    consumer,
    \* since the stored status was set to paused or cancelled under a run
    \* and for as long as it stays so: the gateway sends made and the
    \* recipients written
    stale,
    \* sendTemplateMessage on its own: recipient.TemplateParams, the
    \* components handed to the gateway, the calls of the send operation,
    \* what it returned
    request,
    \* two runs inside getOrCreateContact at once: for each, where it is,
    \* the phone number it was given, the contact it returned
    race

storeVars == <<campStatus, campSent, campFailed, completedAt, recipients,
               contacts, messages>>
worldVars == <<sends, published, ctxDone, jobs>>
localVars == <<sentCount, failedCount, list, idx, contact, waMessageID, message>>
campaignVars == <<storeVars, worldVars, pc, exit, localVars, start, writes>>
vars == <<campaignVars, calls, render, consumer, stale, request, race>>

\* --------------------------------------------------- pure parts of the code

\* Startable letting a completed campaign run again.
Startable_OrCompleted(status) == status \in {"queued", "processing", "completed"}

\* worker.go:88  the statuses a run may start from
Startable(status) == status \in {"queued", "processing"}

\* Stopped forgetting the cancelled status.
Stopped_PausedOnly(status) == status = "paused"

\* worker.go:129  the statuses that stop the loop
Stopped(status) == status \in {"paused", "cancelled"}

\* A setup error leaving the campaign cancelled instead of failed.
SetupFailureStatus_Cancelled == "cancelled"

\* worker.go:97, 108  the status a setup error leaves
SetupFailureStatus == "failed"

\* PendingOf without its status filter: every recipient of the campaign.
PendingOf_AnyStatus(rs) == [n \in 1 .. NumRecipients |-> n]

\* worker.go:106  WHERE campaign_id = ? AND status = 'pending', in row order
PendingOf(rs) ==
    LET Sel[n \in 0 .. NumRecipients] ==
            IF n = 0 THEN <<>>
            ELSE IF rs[n].status = "pending" THEN Append(Sel[n - 1], n)
                 ELSE Sel[n - 1]
    IN  Sel[NumRecipients]

\* worker.go:299-302  strip one leading "+"
Normalize(phone) ==
    IF Len(phone) > 0 /\ phone[1] = "+" THEN Tail(phone) ELSE phone

\* First contact with this phone number, 0 when there is none (First(&contact)).
FindContact(cs, phone) ==
    IF \E i \in 1 .. Len(cs) : cs[i] = phone
    THEN CHOOSE i \in 1 .. Len(cs) :
            cs[i] = phone /\ \A j \in 1 .. i - 1 : cs[j] # phone
    ELSE 0

\* getOrCreateContact without its second lookup, the one with the "+".
GetOrCreateContact_NoPlusLookup(cs, phone, createOk) ==
    LET normalizedPhone == Normalize(phone) IN
    IF FindContact(cs, normalizedPhone) # 0
    THEN [contacts |-> cs, contact |-> FindContact(cs, normalizedPhone)]
    ELSE IF createOk
    THEN [contacts |-> Append(cs, normalizedPhone), contact |-> Len(cs) + 1]
    ELSE [contacts |-> cs, contact |-> 0]

\* worker.go:297-329  the contacts afterwards and the contact returned
\* (0 for nil, err); createOk is whether the INSERT succeeds if it is reached.
GetOrCreateContact(cs, phone, createOk) ==
    LET normalizedPhone == Normalize(phone) IN
    IF FindContact(cs, normalizedPhone) # 0
    THEN [contacts |-> cs, contact |-> FindContact(cs, normalizedPhone)]
    ELSE IF FindContact(cs, <<"+">> \o normalizedPhone) # 0
    THEN [contacts |-> cs,
          contact |-> FindContact(cs, <<"+">> \o normalizedPhone)]
    ELSE IF createOk
    THEN [contacts |-> Append(cs, normalizedPhone), contact |-> Len(cs) + 1]
    ELSE [contacts |-> cs, contact |-> 0]

\* Strings are sequences of characters.
DecimalDigits == <<"0", "1", "2", "3", "4", "5", "6", "7", "8", "9">>

\* worker.go:170  fmt.Sprintf("%d", i), for 0 <= i < 100
Decimal(i) ==
    IF i < 10 THEN <<DecimalDigits[i + 1]>>
    ELSE <<DecimalDigits[(i \div 10) + 1], DecimalDigits[(i % 10) + 1]>>

\* worker.go:172  fmt.Sprintf("{{%d}}", i)
Placeholder(i) == <<"{", "{">> \o Decimal(i) \o <<"}", "}">>

\* s has pat at position i.
HasAt(s, i, pat) ==
    /\ i + Len(pat) - 1 <= Len(s)
    /\ SubSeq(s, i, i + Len(pat) - 1) = pat

\* strings.ReplaceAll(s, old, new) for a non-empty old: the non-overlapping
\* occurrences of old, found from the left, each replaced by new.
RECURSIVE ReplaceFrom(_, _, _, _)
ReplaceFrom(s, i, old, new) ==
    IF i > Len(s) THEN <<>>
    ELSE IF HasAt(s, i, old)
         THEN new \o ReplaceFrom(s, i + Len(old), old, new)
         ELSE <<s[i]>> \o ReplaceFrom(s, i + 1, old, new)

ReplaceAll(s, old, new) == ReplaceFrom(s, 1, old, new)

\* worker.go:166-177  message.Content: for i = 1..10 in turn, when key i is
\* among the parameters, every {{i}} of the content so far is replaced by
\* the parameter's value.
RenderContent(body, params) ==
    LET Pass[i \in 0 .. MaxTemplateParams] ==
            IF i = 0 THEN body
            ELSE IF Decimal(i) \in DOMAIN params
                 THEN ReplaceAll(Pass[i - 1], Placeholder(i), params[Decimal(i)])
                 ELSE Pass[i - 1]
    IN  Pass[MaxTemplateParams]

\* worker.go:271-274  one positional parameter of the body component
TextParameter(val) == [type |-> "text", text |-> val]

\* The body parameters with an empty text standing in for every absent
\* index.
BodyParameters_Padded(params) ==
    [i \in 1 .. MaxTemplateParams |->
        IF Decimal(i) \in DOMAIN params THEN TextParameter(params[Decimal(i)])
                                        ELSE TextParameter(<<>>)]

\* worker.go:267-276  bodyParams after the loop over i = 1..10
BodyParameters(params) ==
    LET Upto[i \in 0 .. MaxTemplateParams] ==
            IF i = 0 THEN <<>>
            ELSE IF Decimal(i) \in DOMAIN params
                 THEN Append(Upto[i - 1], TextParameter(params[Decimal(i)]))
                 ELSE Upto[i - 1]
    IN  Upto[MaxTemplateParams]

\* worker.go:262-283  the components handed to the gateway (a nil map and
\* an empty one both have length 0)
Components(params) ==
    IF DOMAIN params # {} /\ Len(BodyParameters(params)) > 0
    THEN << [type |-> "body", parameters |-> BodyParameters(params)] >>
    ELSE <<>>

\* handleCampaignJob returning nil whatever processCampaign returned.
HandleCampaignJob_SwallowsError(err) == "nil"

\* worker.go:67-73  what handleCampaignJob returns, given what
\* processCampaign returned
HandleCampaignJob(err) == IF err # "nil" THEN err ELSE "nil"

\* Run returning every consumer error, cancellation or not.
RunResult_IgnoresContext(consumeErr, cancelled) ==
    IF consumeErr # "nil" THEN "error" ELSE "nil"

\* worker.go:54-60  what Run returns, given what Consume returned and
\* whether ctx.Err() is non-nil
RunResult(consumeErr, cancelled) ==
    IF consumeErr # "nil" /\ ~cancelled THEN "error" ELSE "nil"

\* What processCampaign returns at each of its return statements.
ReturnValue(site) ==
    CASE site = "notfound"   -> "error"          \* :84
      [] site = "skip"       -> "nil"            \* :90
      [] site = "account"    -> "error"          \* :98
      [] site = "recipients" -> "error"          \* :109
      [] site = "ctx"        -> "ctx.Err()"      \* :122
      [] site = "stopped"    -> "nil"            \* :131
      [] site = "completed"  -> "nil"            \* :250
      [] OTHER               -> "none"

\* queue.CampaignStatsUpdate as built at :215 and :239
Snapshot(status, sent, failed) ==
    [status |-> status, sent_count |-> sent, delivered_count |-> 0,
     read_count |-> 0, failed_count |-> failed]

\* ------------------------------------------------------------- initial state

\* Nothing has called getOrCreateContact on its own.
NoCalls == calls = <<>>

\* Nothing is being rendered on its own.
NoRender ==
    render = [body |-> <<>>, params |-> <<>>, content |-> <<>>, done |-> FALSE]

\* Worker.Run is not part of the picture.
NoConsumer ==
    consumer = [state |-> "off", consumeErr |-> "none", ctxAtEnd |-> FALSE,
                runResult |-> "none", handlerResult |-> "none"]

\* No pause or cancel is waiting to be seen by a run.
NoStale == stale = [on |-> FALSE, sends |-> 0, mutated |-> {}]

\* sendTemplateMessage is not being called on its own.
NoRequest ==
    request = [params |-> <<>>, components |-> <<>>, calls |-> 0,
               result |-> "none"]

\* No two runs are inside getOrCreateContact.
NoRace == race = [unique |-> FALSE, callers |-> <<>>]

\* The campaign as its creator queued it, the worker idle.
CampaignInit ==
    /\ campStatus = "queued"
    /\ campSent = 0
    /\ campFailed = 0
    /\ completedAt = FALSE
    /\ recipients = [r \in Recipients |-> PendingRecipient]
    /\ messages = <<>>
    /\ sends = <<>>
    /\ published = <<>>
    /\ ctxDone = FALSE
    /\ jobs = 0
    /\ pc = "idle"
    /\ exit = "none"
    /\ sentCount = 0
    /\ failedCount = 0
    /\ list = <<>>
    /\ idx = 1
    /\ contact = 0
    /\ waMessageID = ""
    /\ message = NoMessage
    /\ start = [recipients |-> recipients, contacts |-> contacts, messages |-> 0,
                sends |-> 0, published |-> 0, status |-> campStatus,
                sent |-> 0, failed |-> 0, completedAt |-> FALSE]
    /\ writes = [r \in Recipients |-> 0]

Init ==
    /\ contacts \in {<<>>, << <<"+", "1">> >>}
    /\ CampaignInit
    /\ NoCalls
    /\ NoRender
    /\ NoConsumer
    /\ NoStale
    /\ NoRequest
    /\ NoRace

\* ------------------------------------------------------------- the worker

\* A return statement of processCampaign: back to the consumer.
Return(site) == pc' = "idle" /\ exit' = site

\* The loop stepping over every other recipient of the list.
NextIteration_SkipsOne ==
    /\ idx' = idx + 2
    /\ pc' = IF idx + 2 > Len(list) THEN "complete" ELSE "ctx"
    /\ contact' = 0
    /\ waMessageID' = ""
    /\ message' = NoMessage

\* The loop's `for _, recipient := range recipients`: the next recipient, or
\* the statements after the loop.
NextIteration ==
    /\ idx' = idx + 1
    /\ pc' = IF idx + 1 > Len(list) THEN "complete" ELSE "ctx"
    /\ contact' = 0
    /\ waMessageID' = ""
    /\ message' = NoMessage

\* worker.go:64-67  the consumer hands a job to handleCampaignJob, which
\* calls processCampaign.
StartRun ==
    /\ pc = "idle"
    /\ jobs < MaxJobs
    /\ jobs' = jobs + 1
    /\ pc' = "load"
    /\ exit' = "none"
    /\ sentCount' = 0
    /\ failedCount' = 0
    /\ list' = <<>>
    /\ idx' = 1
    /\ contact' = 0
    /\ waMessageID' = ""
    /\ message' = NoMessage
    /\ UNCHANGED <<storeVars, sends, published, ctxDone, start, writes>>

\* worker.go:80-91  load the campaign; stop unless it is startable.
\* campaign.SentCount and campaign.FailedCount are read here (used at :114).
LoadCampaign ==
    /\ pc = "load"
    /\ start' = [recipients |-> recipients, contacts |-> contacts,
                 messages |-> Len(messages), sends |-> Len(sends),
                 published |-> Len(published), status |-> campStatus,
                 sent |-> campSent, failed |-> campFailed,
                 completedAt |-> completedAt]
    /\ \E found \in BOOLEAN :
        IF ~found THEN
            /\ Return("notfound")
            /\ UNCHANGED <<sentCount, failedCount>>
        ELSE IF ~Startable(campStatus) THEN
            /\ Return("skip")
            /\ UNCHANGED <<sentCount, failedCount>>
        ELSE
            /\ sentCount' = campSent
            /\ failedCount' = campFailed
            /\ pc' = "account"
            /\ UNCHANGED exit
    /\ UNCHANGED <<storeVars, worldVars, list, idx, contact, waMessageID,
                   message, writes>>

\* worker.go:93-99  load the sending account; on failure mark the campaign
\* failed and return the error.
LoadAccount ==
    /\ pc = "account"
    /\ \E found \in BOOLEAN :
        IF found THEN
            /\ pc' = "processing"
            /\ UNCHANGED <<campStatus, exit>>
        ELSE
            /\ campStatus' = SetupFailureStatus
            /\ Return("account")
    /\ UNCHANGED <<campSent, campFailed, completedAt, recipients, contacts,
                   messages, worldVars, localVars, start, writes>>

\* worker.go:101-102
SetProcessing ==
    /\ pc = "processing"
    /\ campStatus' = "processing"
    /\ pc' = "recipients"
    /\ UNCHANGED <<campSent, campFailed, completedAt, recipients, contacts,
                   messages, worldVars, exit, localVars, start, writes>>

\* LoadRecipients returning at once, the campaign left as it is, when
\* there is no pending recipient.
LoadRecipients_ReturnsWhenEmpty ==
    /\ pc = "recipients"
    /\ \E ok \in BOOLEAN :
        IF ok /\ PendingOf(recipients) # <<>> THEN
            /\ list' = PendingOf(recipients)
            /\ idx' = 1
            /\ pc' = "ctx"
            /\ UNCHANGED <<campStatus, exit>>
        ELSE IF ok THEN
            /\ Return("stopped")
            /\ UNCHANGED <<campStatus, list, idx>>
        ELSE
            /\ campStatus' = SetupFailureStatus
            /\ Return("recipients")
            /\ UNCHANGED <<list, idx>>
    /\ UNCHANGED <<campSent, campFailed, completedAt, recipients, contacts,
                   messages, worldVars, sentCount, failedCount, contact,
                   waMessageID, message, start, writes>>

\* worker.go:104-117  load the pending recipients; on failure mark the
\* campaign failed and return the error.
LoadRecipients ==
    /\ pc = "recipients"
    /\ \E ok \in BOOLEAN :
        IF ok THEN
            /\ list' = PendingOf(recipients)
            /\ idx' = 1
            /\ pc' = IF PendingOf(recipients) = <<>> THEN "complete" ELSE "ctx"
            /\ UNCHANGED <<campStatus, exit>>
        ELSE
            /\ campStatus' = SetupFailureStatus
            /\ Return("recipients")
            /\ UNCHANGED <<list, idx>>
    /\ UNCHANGED <<campSent, campFailed, completedAt, recipients, contacts,
                   messages, worldVars, sentCount, failedCount, contact,
                   waMessageID, message, start, writes>>

\* CheckContext treating cancellation as a setup error: campaign failed.
CheckContext_MarksFailed ==
    /\ pc = "ctx"
    /\ IF ctxDone THEN Return("ctx") /\ campStatus' = "failed"
                  ELSE pc' = "status" /\ UNCHANGED <<exit, campStatus>>
    /\ UNCHANGED <<campSent, campFailed, completedAt, recipients, contacts,
                   messages, worldVars, localVars, start, writes>>

\* worker.go:118-124  select on ctx.Done()
CheckContext ==
    /\ pc = "ctx"
    /\ IF ctxDone THEN Return("ctx") ELSE pc' = "status" /\ UNCHANGED exit
    /\ UNCHANGED <<storeVars, worldVars, localVars, start, writes>>

\* CheckStatus waiting at a paused or cancelled campaign instead of
\* returning.
CheckStatus_WaitsWhileStopped ==
    /\ pc = "status"
    /\ IF Stopped(campStatus) THEN UNCHANGED <<pc, exit>>
                              ELSE pc' = "contact" /\ UNCHANGED exit
    /\ UNCHANGED <<storeVars, worldVars, localVars, start, writes>>

\* worker.go:126-132  re-read the campaign's status
CheckStatus ==
    /\ pc = "status"
    /\ IF Stopped(campStatus) THEN Return("stopped")
                              ELSE pc' = "contact" /\ UNCHANGED exit
    /\ UNCHANGED <<storeVars, worldVars, localVars, start, writes>>

\* worker.go:134-136
ResolveContact ==
    /\ pc = "contact"
    /\ \E createOk \in BOOLEAN :
        LET r == GetOrCreateContact(contacts, PhoneNumber(list[idx]), createOk)
        IN  /\ contacts' = r.contacts
            /\ contact' = r.contact
            /\ pc' = IF r.contact = 0 THEN "contact_failed" ELSE "send"
    /\ UNCHANGED <<campStatus, campSent, campFailed, completedAt, recipients,
                   messages, worldVars, exit, sentCount, failedCount, list,
                   idx, waMessageID, message, start, writes>>

\* MarkContactFailed forgetting failedCount++.
MarkContactFailed_NoCount ==
    /\ pc = "contact_failed"
    /\ recipients' = [recipients EXCEPT ![list[idx]] =
            [@ EXCEPT !.status = "failed",
                      !.error_message = "Failed to create contact"]]
    /\ writes' = [writes EXCEPT ![list[idx]] = @ + 1]
    /\ NextIteration
    /\ UNCHANGED <<campStatus, campSent, campFailed, completedAt, contacts,
                   messages, worldVars, exit, sentCount, failedCount, list,
                   start>>

\* MarkContactFailed leaving the loop (break) instead of continuing.
MarkContactFailed_Break ==
    /\ pc = "contact_failed"
    /\ recipients' = [recipients EXCEPT ![list[idx]] =
            [@ EXCEPT !.status = "failed",
                      !.error_message = "Failed to create contact"]]
    /\ writes' = [writes EXCEPT ![list[idx]] = @ + 1]
    /\ failedCount' = failedCount + 1
    /\ pc' = "complete"
    /\ UNCHANGED <<campStatus, campSent, campFailed, completedAt, contacts,
                   messages, worldVars, exit, sentCount, list, idx, contact,
                   waMessageID, message, start>>

\* worker.go:137-143  contact resolution failed: mark the recipient, count
\* it, continue with the next one.
MarkContactFailed ==
    /\ pc = "contact_failed"
    /\ recipients' = [recipients EXCEPT ![list[idx]] =
            [@ EXCEPT !.status = "failed",
                      !.error_message = "Failed to create contact"]]
    /\ writes' = [writes EXCEPT ![list[idx]] = @ + 1]
    /\ failedCount' = failedCount + 1
    /\ NextIteration
    /\ UNCHANGED <<campStatus, campSent, campFailed, completedAt, contacts,
                   messages, worldVars, exit, sentCount, list, start>>

\* SendTemplate counting every send as sent, the failed ones as failed too.
SendTemplate_CountsEverySendAsSent ==
    /\ pc = "send"
    /\ \E res \in {"ok"} \cup GatewayErrors :
        /\ sends' = Append(sends, [to |-> list[idx], result |-> res])
        /\ sentCount' = sentCount + 1
        /\ IF res = "ok" THEN
            /\ waMessageID' = "wamid"
            /\ message' = [status |-> "sent", error_message |-> ""]
            /\ UNCHANGED failedCount
           ELSE
            /\ waMessageID' = ""
            /\ message' = [status |-> "failed", error_message |-> res]
            /\ failedCount' = failedCount + 1
    /\ pc' = "message"
    /\ UNCHANGED <<storeVars, published, ctxDone, jobs, exit, list, idx,
                   contact, start, writes>>

\* worker.go:146-189  the gateway send, then the local bookkeeping of its
\* outcome (message status, error text, the run's counters).
SendTemplate ==
    /\ pc = "send"
    /\ \E res \in {"ok"} \cup GatewayErrors :
        /\ sends' = Append(sends, [to |-> list[idx], result |-> res])
        /\ IF res = "ok" THEN
            /\ waMessageID' = "wamid"
            /\ message' = [status |-> "sent", error_message |-> ""]
            /\ sentCount' = sentCount + 1
            /\ UNCHANGED failedCount
           ELSE
            /\ waMessageID' = ""
            /\ message' = [status |-> "failed", error_message |-> res]
            /\ failedCount' = failedCount + 1
            /\ UNCHANGED sentCount
    /\ pc' = "message"
    /\ UNCHANGED <<storeVars, published, ctxDone, jobs, exit, list, idx,
                   contact, start, writes>>

\* CreateMessage giving up the iteration when the insert fails.
CreateMessage_SkipsRestOnFailure ==
    /\ pc = "message"
    /\ \E ok \in BOOLEAN :
        IF ok THEN
            /\ messages' = Append(messages,
                        [recipient |-> list[idx], contact_id |-> contact,
                         whats_app_message_id |-> waMessageID,
                         direction |-> "outgoing", message_type |-> "template",
                         status |-> message.status,
                         error_message |-> message.error_message])
            /\ pc' = "recipient"
            /\ UNCHANGED <<idx, contact, waMessageID, message>>
        ELSE
            /\ messages' = messages
            /\ NextIteration
    /\ UNCHANGED <<campStatus, campSent, campFailed, completedAt, recipients,
                   contacts, worldVars, exit, sentCount, failedCount, list,
                   start, writes>>

\* CreateMessage saving every message as sent, without the error text.
CreateMessage_AlwaysSent ==
    /\ pc = "message"
    /\ \E ok \in BOOLEAN :
        messages' =
            IF ok THEN Append(messages,
                        [recipient |-> list[idx], contact_id |-> contact,
                         whats_app_message_id |-> waMessageID,
                         direction |-> "outgoing", message_type |-> "template",
                         status |-> "sent", error_message |-> ""])
            ELSE messages
    /\ pc' = "recipient"
    /\ UNCHANGED <<campStatus, campSent, campFailed, completedAt, recipients,
                   contacts, worldVars, exit, localVars, start, writes>>

\* worker.go:191-194  save the message record; a failure is only logged.
CreateMessage ==
    /\ pc = "message"
    /\ \E ok \in BOOLEAN :
        messages' =
            IF ok THEN Append(messages,
                        [recipient |-> list[idx], contact_id |-> contact,
                         whats_app_message_id |-> waMessageID,
                         direction |-> "outgoing", message_type |-> "template",
                         status |-> message.status,
                         error_message |-> message.error_message])
            ELSE messages
    /\ pc' = "recipient"
    /\ UNCHANGED <<campStatus, campSent, campFailed, completedAt, recipients,
                   contacts, worldVars, exit, localVars, start, writes>>

\* UpdateRecipient never recording the error text.
UpdateRecipient_NoErrorText ==
    /\ pc = "recipient"
    /\ recipients' = [recipients EXCEPT ![list[idx]] =
            IF message.status = "failed"
            THEN [@ EXCEPT !.status = message.status,
                           !.whats_app_message_id = waMessageID]
            ELSE [@ EXCEPT !.status = message.status,
                           !.whats_app_message_id = waMessageID,
                           !.sent_at = TRUE]]
    /\ writes' = [writes EXCEPT ![list[idx]] = @ + 1]
    /\ pc' = "counts"
    /\ UNCHANGED <<campStatus, campSent, campFailed, completedAt, contacts,
                   messages, worldVars, exit, localVars, start>>

\* worker.go:196-206
UpdateRecipient ==
    /\ pc = "recipient"
    /\ recipients' = [recipients EXCEPT ![list[idx]] =
            IF message.status = "failed"
            THEN [@ EXCEPT !.status = message.status,
                           !.whats_app_message_id = waMessageID,
                           !.error_message = message.error_message]
            ELSE [@ EXCEPT !.status = message.status,
                           !.whats_app_message_id = waMessageID,
                           !.sent_at = TRUE]]
    /\ writes' = [writes EXCEPT ![list[idx]] = @ + 1]
    /\ pc' = "counts"
    /\ UNCHANGED <<campStatus, campSent, campFailed, completedAt, contacts,
                   messages, worldVars, exit, localVars, start>>

\* UpdateCounts saving the whole campaign struct, status included (the
\* struct's status is the one written at :102).
UpdateCounts_SavesStatus ==
    /\ pc = "counts"
    /\ campSent' = sentCount
    /\ campFailed' = failedCount
    /\ campStatus' = "processing"
    /\ pc' = "publish"
    /\ UNCHANGED <<completedAt, recipients, contacts, messages, worldVars,
                   exit, localVars, start, writes>>

\* worker.go:208-212  only the two counters are written
UpdateCounts ==
    /\ pc = "counts"
    /\ campSent' = sentCount
    /\ campFailed' = failedCount
    /\ pc' = "publish"
    /\ UNCHANGED <<campStatus, completedAt, recipients, contacts, messages,
                   worldVars, exit, localVars, start, writes>>

\* worker.go:214-227  publish the progress snapshot, sleep, next recipient
PublishStats ==
    /\ pc = "publish"
    /\ published' = Append(published,
                           Snapshot("processing", sentCount, failedCount))
    /\ NextIteration
    /\ UNCHANGED <<storeVars, sends, ctxDone, jobs, exit, sentCount,
                   failedCount, list, start, writes>>

\* MarkCompleted writing only status and completed_at.
MarkCompleted_StatusOnly ==
    /\ pc = "complete"
    /\ campStatus' = "completed"
    /\ completedAt' = TRUE
    /\ pc' = "final"
    /\ UNCHANGED <<campSent, campFailed, recipients, contacts, messages,
                   worldVars, exit, localVars, start, writes>>

\* worker.go:229-236
MarkCompleted ==
    /\ pc = "complete"
    /\ campStatus' = "completed"
    /\ completedAt' = TRUE
    /\ campSent' = sentCount
    /\ campFailed' = failedCount
    /\ pc' = "final"
    /\ UNCHANGED <<recipients, contacts, messages, worldVars, exit, localVars,
                   start, writes>>

\* worker.go:238-250
PublishCompleted ==
    /\ pc = "final"
    /\ published' = Append(published,
                           Snapshot("completed", sentCount, failedCount))
    /\ Return("completed")
    /\ UNCHANGED <<storeVars, sends, ctxDone, jobs, localVars, start, writes>>

\* ------------------------------------------------------------- the world

\* The management API pauses the campaign (spec 4.2: settable at any time
\* while the campaign is queued or processing).
Pause ==
    /\ campStatus \in {"queued", "processing"}
    /\ campStatus' = "paused"
    /\ UNCHANGED <<campSent, campFailed, completedAt, recipients, contacts,
                   messages, worldVars, pc, exit, localVars, start, writes>>

\* The management API cancels the campaign.
Cancel ==
    /\ campStatus \in {"queued", "processing", "paused"}
    /\ campStatus' = "cancelled"
    /\ UNCHANGED <<campSent, campFailed, completedAt, recipients, contacts,
                   messages, worldVars, pc, exit, localVars, start, writes>>

\* The management API re-queues a paused campaign between runs; the job it
\* enqueues is a later StartRun.
Requeue ==
    /\ campStatus = "paused"
    /\ pc = "idle"
    /\ campStatus' = "queued"
    /\ UNCHANGED <<campSent, campFailed, completedAt, recipients, contacts,
                   messages, worldVars, pc, exit, localVars, start, writes>>

\* The process is told to shut down: ctx is cancelled.
CancelContext ==
    /\ ~ctxDone
    /\ ctxDone' = TRUE
    /\ UNCHANGED <<storeVars, sends, published, jobs, pc, exit, localVars,
                   start, writes>>

\* A new worker process starts with a fresh context.
RestartProcess ==
    /\ ctxDone
    /\ pc = "idle"
    /\ ctxDone' = FALSE
    /\ UNCHANGED <<storeVars, sends, published, jobs, pc, exit, localVars,
                   start, writes>>

\* What a step of the campaign model leaves alone.
Aside == UNCHANGED <<calls, render, consumer, stale, request, race>>

Next ==
    \/ StartRun /\ Aside
    \/ LoadCampaign /\ Aside
    \/ LoadAccount /\ Aside
    \/ SetProcessing /\ Aside
    \/ LoadRecipients /\ Aside
    \/ CheckContext /\ Aside
    \/ CheckStatus /\ Aside
    \/ ResolveContact /\ Aside
    \/ MarkContactFailed /\ Aside
    \/ SendTemplate /\ Aside
    \/ CreateMessage /\ Aside
    \/ UpdateRecipient /\ Aside
    \/ UpdateCounts /\ Aside
    \/ PublishStats /\ Aside
    \/ MarkCompleted /\ Aside
    \/ PublishCompleted /\ Aside
    \/ Pause /\ Aside
    \/ Cancel /\ Aside
    \/ Requeue /\ Aside
    \/ CancelContext /\ Aside
    \/ RestartProcess /\ Aside

Spec == Init /\ [][Next]_vars

\* A step of processCampaign: every call it makes returns, so a run that
\* has started always has its next step to take.
RunStep ==
    \/ LoadCampaign /\ Aside
    \/ LoadAccount /\ Aside
    \/ SetProcessing /\ Aside
    \/ LoadRecipients /\ Aside
    \/ CheckContext /\ Aside
    \/ CheckStatus /\ Aside
    \/ ResolveContact /\ Aside
    \/ MarkContactFailed /\ Aside
    \/ SendTemplate /\ Aside
    \/ CreateMessage /\ Aside
    \/ UpdateRecipient /\ Aside
    \/ UpdateCounts /\ Aside
    \/ PublishStats /\ Aside
    \/ MarkCompleted /\ Aside
    \/ PublishCompleted /\ Aside

\* The campaign model with a run that keeps going once started.
FairSpec == Spec /\ WF_vars(RunStep)

\* ------------------------------------------- Worker.Run around the campaign

ConsumerInit ==
    /\ contacts \in {<<>>, << <<"+", "1">> >>}
    /\ CampaignInit
    /\ NoCalls
    /\ NoRender
    /\ consumer = [state |-> "consuming", consumeErr |-> "none",
                   ctxAtEnd |-> FALSE, runResult |-> "none",
                   handlerResult |-> "none"]
    /\ NoStale
    /\ NoRequest
    /\ NoRace

\* worker.go:64-74  a step of processCampaign inside handleCampaignJob:
\* when it is the return, the handler returns in turn.
InHandler ==
    /\ consumer' = [consumer EXCEPT !.handlerResult =
                        IF pc' = "idle"
                        THEN HandleCampaignJob(ReturnValue(exit'))
                        ELSE "none"]
    /\ UNCHANGED <<calls, render, stale, request, race>>

\* worker.go:54  Consume calls the handler for a job only while it runs.
Consuming == consumer.state = "consuming"

\* queue.RedisConsumer.Consume returns (not in src/): with nil or with an
\* error of the transport at any time between two jobs, with the context's
\* error once the context is cancelled.
ConsumeReturns ==
    /\ Consuming
    /\ pc = "idle"
    /\ \E err \in {"nil", "error"} \cup (IF ctxDone THEN {"ctx.Err()"} ELSE {}) :
        consumer' = [consumer EXCEPT !.state = "ended", !.consumeErr = err,
                                     !.ctxAtEnd = ctxDone]
    /\ UNCHANGED <<campaignVars, calls, render, stale, request, race>>

\* worker.go:55-60
RunReturns ==
    /\ consumer.state = "ended"
    /\ consumer' = [consumer EXCEPT
                        !.state = "returned",
                        !.runResult = RunResult(consumer.consumeErr, ctxDone)]
    /\ UNCHANGED <<campaignVars, calls, render, stale, request, race>>

\* A new worker process: fresh context, Run called again.
RestartWorker ==
    /\ consumer.state = "returned"
    /\ RestartProcess
    /\ consumer' = [consumer EXCEPT !.state = "consuming",
                                     !.consumeErr = "none",
                                     !.ctxAtEnd = FALSE,
                                     !.runResult = "none"]
    /\ UNCHANGED <<calls, render, stale, request, race>>

ConsumerNext ==
    \/ Consuming /\ StartRun /\ InHandler
    \/ LoadCampaign /\ InHandler
    \/ LoadAccount /\ InHandler
    \/ SetProcessing /\ InHandler
    \/ LoadRecipients /\ InHandler
    \/ CheckContext /\ InHandler
    \/ CheckStatus /\ InHandler
    \/ ResolveContact /\ InHandler
    \/ MarkContactFailed /\ InHandler
    \/ SendTemplate /\ InHandler
    \/ CreateMessage /\ InHandler
    \/ UpdateRecipient /\ InHandler
    \/ UpdateCounts /\ InHandler
    \/ PublishStats /\ InHandler
    \/ MarkCompleted /\ InHandler
    \/ PublishCompleted /\ InHandler
    \/ Pause /\ Aside
    \/ Cancel /\ Aside
    \/ Requeue /\ Aside
    \/ CancelContext /\ Aside
    \/ ConsumeReturns
    \/ RunReturns
    \/ RestartWorker

ConsumerSpec == ConsumerInit /\ [][ConsumerNext]_vars

\* ------------------------------------------- a pause or cancel under a run

\* What a step adds to the account kept since the status was set to
\* paused or cancelled: nothing is kept once the run has returned or the
\* status is something else again.
Observed ==
    /\ stale' =
          IF pc' = "idle" \/ ~(campStatus' \in {"paused", "cancelled"})
          THEN [on |-> FALSE, sends |-> 0, mutated |-> {}]
          ELSE IF ~stale.on
          THEN [on |-> TRUE, sends |-> 0, mutated |-> {}]
          ELSE [on |-> TRUE,
                sends |-> stale.sends + (Len(sends') - Len(sends)),
                mutated |-> stale.mutated \cup
                    {r \in Recipients : recipients'[r] # recipients[r]}]
    /\ UNCHANGED <<calls, render, consumer, request, race>>

StalenessNext ==
    \/ StartRun /\ Observed
    \/ LoadCampaign /\ Observed
    \/ LoadAccount /\ Observed
    \/ SetProcessing /\ Observed
    \/ LoadRecipients /\ Observed
    \/ CheckContext /\ Observed
    \/ CheckStatus /\ Observed
    \/ ResolveContact /\ Observed
    \/ MarkContactFailed /\ Observed
    \/ SendTemplate /\ Observed
    \/ CreateMessage /\ Observed
    \/ UpdateRecipient /\ Observed
    \/ UpdateCounts /\ Observed
    \/ PublishStats /\ Observed
    \/ MarkCompleted /\ Observed
    \/ PublishCompleted /\ Observed
    \/ Pause /\ Observed
    \/ Cancel /\ Observed
    \/ Requeue /\ Observed
    \/ CancelContext /\ Observed
    \/ RestartProcess /\ Observed

StalenessSpec == Init /\ [][StalenessNext]_vars

\* ------------------------------------------- a campaign found part-way

\* A recipient row as an earlier worker process left it.
ProcessedRecipient(status) ==
    IF status = "sent"
    THEN [status |-> "sent", error_message |-> "",
          whats_app_message_id |-> "wamid", sent_at |-> TRUE]
    ELSE [status |-> "failed", error_message |-> "rate limited",
          whats_app_message_id |-> "", sent_at |-> FALSE]

\* The campaign as a worker process that was killed left it: queued or
\* processing, a prefix of its recipients (all of them, possibly) sent or
\* failed and counted, the others pending.
ResumedInit ==
    /\ contacts \in {<<>>, << <<"+", "1">> >>}
    /\ campStatus \in {"queued", "processing"}
    /\ \E k \in 0 .. NumRecipients :
       \E outcome \in [1 .. k -> {"sent", "failed"}] :
        /\ recipients = [r \in Recipients |->
                            IF r <= k THEN ProcessedRecipient(outcome[r])
                                      ELSE PendingRecipient]
        /\ campSent = Cardinality({r \in 1 .. k : outcome[r] = "sent"})
        /\ campFailed = Cardinality({r \in 1 .. k : outcome[r] = "failed"})
    /\ completedAt = FALSE
    /\ messages = <<>>
    /\ sends = <<>>
    /\ published = <<>>
    /\ ctxDone = FALSE
    /\ jobs = 0
    /\ pc = "idle"
    /\ exit = "none"
    /\ sentCount = 0
    /\ failedCount = 0
    /\ list = <<>>
    /\ idx = 1
    /\ contact = 0
    /\ waMessageID = ""
    /\ message = NoMessage
    /\ start = [recipients |-> recipients, contacts |-> contacts, messages |-> 0,
                sends |-> 0, published |-> 0, status |-> campStatus,
                sent |-> campSent, failed |-> campFailed,
                completedAt |-> FALSE]
    /\ writes = [r \in Recipients |-> 0]
    /\ NoCalls
    /\ NoRender
    /\ NoConsumer
    /\ NoStale
    /\ NoRequest
    /\ NoRace

ResumedSpec == ResumedInit /\ [][Next]_vars

\* ------------------------------------------- sendTemplateMessage on its own

\* Keys a recipient's parameters may have: indices in 1..10, an index above
\* 10, and a key no index is printed as.
RequestKeys == {Decimal(1), Decimal(2), Decimal(10), Decimal(11), <<"0", "2">>}

RequestValues == {<<"A", "n", "a">>, <<"#", "4", "2">>}

RequestMaps == UNION {[ks -> RequestValues] : ks \in SUBSET RequestKeys}

SenderInit ==
    /\ contacts = <<>>
    /\ CampaignInit
    /\ NoCalls
    /\ NoRender
    /\ NoConsumer
    /\ NoStale
    /\ request \in [params : RequestMaps, components : {<<>>}, calls : {0},
                     result : {"none"}]
    /\ NoRace

\* worker.go:254-286  build the components, call the gateway's send
\* operation, return what it returned.
SendTemplateMessage ==
    /\ request.calls = 0
    /\ \E res \in {"ok"} \cup GatewayErrors :
        request' = [request EXCEPT !.components = Components(request.params),
                                   !.calls = @ + 1,
                                   !.result = res]
    /\ UNCHANGED <<campaignVars, calls, render, consumer, stale, race>>

SenderSpec == SenderInit /\ [][SendTemplateMessage]_vars

\* ------------------------------------------- getOrCreateContact on its own

\* Phone numbers a caller passes: two numbers, each with and without "+",
\* and the empty number with and without "+".
PhoneInputs ==
    {<<"1">>, <<"+", "1">>, <<"2">>, <<"+", "2">>, <<>>, <<"+">>}

\* Phone numbers other parts of the system have stored.
StoredPhones == {<<"1">>, <<"+", "1">>, <<"2">>}

\* The contacts table before the calls: rows are unique by phone number.
InitialContacts ==
    {cs \in UNION {[1 .. n -> StoredPhones] : n \in 0 .. MaxStored} :
        \A i, j \in 1 .. Len(cs) : cs[i] = cs[j] => i = j}

ResolverInit ==
    /\ contacts \in InitialContacts
    /\ CampaignInit
    /\ NoCalls
    /\ NoRender
    /\ NoConsumer
    /\ NoStale
    /\ NoRequest
    /\ NoRace

\* worker.go:296-329  one call of getOrCreateContact
CallGetOrCreateContact ==
    /\ Len(calls) < MaxCalls
    /\ \E phone \in PhoneInputs, createOk \in BOOLEAN :
        LET r == GetOrCreateContact(contacts, phone, createOk)
        IN  /\ contacts' = r.contacts
            /\ calls' = Append(calls, [phone |-> phone, contact |-> r.contact])
    /\ UNCHANGED <<campStatus, campSent, campFailed, completedAt, recipients,
                   messages, worldVars, pc, exit, localVars, start, writes,
                   render, consumer, stale, request, race>>

ResolverSpec == ResolverInit /\ [][CallGetOrCreateContact]_vars

\* ------------------------------------------- two runs in getOrCreateContact

\* The two runs.
Callers == {1, 2}

\* Two runs call getOrCreateContact, each with a phone number of its own
\* recipient; the contacts table has, or has not, a unique index on the
\* phone number (the schema is not part of src/).
RaceInit ==
    /\ contacts \in InitialContacts
    /\ CampaignInit
    /\ NoCalls
    /\ NoRender
    /\ NoConsumer
    /\ NoStale
    /\ NoRequest
    /\ \E unique \in BOOLEAN, phones \in [Callers -> PhoneInputs] :
        race = [unique |-> unique,
                callers |-> [p \in Callers |->
                                [pc |-> "lookup", phone |-> phones[p],
                                 contact |-> 0]]]

\* Caller p goes to pc `to`, holding contact c.
Moved(p, to, c) ==
    race' = [race EXCEPT !.callers[p].pc = to, !.callers[p].contact = c]

\* worker.go:304-309  the lookup by the normalized number
Lookup(p) ==
    /\ race.callers[p].pc = "lookup"
    /\ LET found == FindContact(contacts, Normalize(race.callers[p].phone))
       IN  IF found # 0 THEN Moved(p, "done", found)
                        ELSE Moved(p, "lookupPlus", 0)
    /\ UNCHANGED <<campaignVars, calls, render, consumer, stale, request>>

\* worker.go:311-315  the lookup with the "+" in front
LookupPlus(p) ==
    /\ race.callers[p].pc = "lookupPlus"
    /\ LET found == FindContact(contacts,
                        <<"+">> \o Normalize(race.callers[p].phone))
       IN  IF found # 0 THEN Moved(p, "done", found)
                        ELSE Moved(p, "create", 0)
    /\ UNCHANGED <<campaignVars, calls, render, consumer, stale, request>>

\* worker.go:317-328  the insert: rejected by the unique index, if there is
\* one, when the number is stored already; nil, err is returned then.
Create(p) ==
    /\ race.callers[p].pc = "create"
    /\ LET normalizedPhone == Normalize(race.callers[p].phone) IN
       IF race.unique /\ FindContact(contacts, normalizedPhone) # 0
       THEN /\ Moved(p, "done", 0)
            /\ UNCHANGED contacts
       ELSE /\ contacts' = Append(contacts, normalizedPhone)
            /\ Moved(p, "done", Len(contacts) + 1)
    /\ UNCHANGED <<campStatus, campSent, campFailed, completedAt, recipients,
                   messages, worldVars, pc, exit, localVars, start, writes,
                   calls, render, consumer, stale, request>>

RaceNext == \E p \in Callers : Lookup(p) \/ LookupPlus(p) \/ Create(p)

RaceSpec == RaceInit /\ [][RaceNext]_vars

\* ------------------------------------------- message.Content on its own

\* Pieces of template bodies: text, placeholders up to and beyond the limit.
BodyPieces ==
    {<<"H", "i", " ">>, <<"{">>, Placeholder(1), Placeholder(2),
     Placeholder(MaxTemplateParams), Placeholder(MaxTemplateParams + 1)}

RECURSIVE Bodies(_)
Bodies(n) ==
    IF n = 0 THEN {<<>>}
    ELSE Bodies(n - 1) \cup {b \o p : b \in Bodies(n - 1), p \in BodyPieces}

\* Keys and values of recipient.TemplateParams: a value may be any text,
\* text that looks like a placeholder included.
ParamKeys ==
    {Decimal(1), Decimal(2), Decimal(MaxTemplateParams),
     Decimal(MaxTemplateParams + 1)}

ParamValues == {<<"A", "n", "a">>, <<"#", "4", "2">>, Placeholder(2)}

ParamMaps == UNION {[K -> ParamValues] : K \in SUBSET ParamKeys}

RenderInit ==
    /\ contacts = <<>>
    /\ CampaignInit
    /\ NoCalls
    /\ render \in [body : Bodies(MaxPieces), params : ParamMaps,
                    content : {<<>>}, done : {FALSE}]
    /\ NoConsumer
    /\ NoStale
    /\ NoRequest
    /\ NoRace

\* worker.go:163-178
Render ==
    /\ ~render.done
    /\ render' = [render EXCEPT
                    !.content = RenderContent(render.body, render.params),
                    !.done = TRUE]
    /\ UNCHANGED <<campaignVars, calls, consumer, stale, request, race>>

RenderSpec == RenderInit /\ [][Render]_vars

\* ------------------------------------------------------------- claims

\* A step of the worker (every one moves pc; the world never does).
WorkerStep == pc' # pc

\* The run has set the campaign to completed (:231) and not yet been
\* followed by another job.
RunCompleted == pc = "final" \/ exit = "completed"

\* C1 as stated: after a run that completed, sent_count + failed_count is
\* the number of recipients that were pending when the run loaded its list,
\* for resumed runs too.
C1_CountsEqualPendingAtLoad ==
    RunCompleted => campSent + campFailed = Len(list)

\* C1 amended: after a run that completed, sent_count + failed_count is the
\* sum of the two counters the run loaded with the campaign plus the number
\* of recipients that were pending when it loaded its list.
C1_CountsEqualLoadedPlusPending ==
    RunCompleted =>
        campSent + campFailed = start.sent + start.failed + Len(list)

\* A resumed run that found counted recipients and pending ones completed.
C1_Witness ==
    /\ exit = "completed"
    /\ start.sent + start.failed > 0
    /\ Len(list) > 0

\* C2: sent_count + failed_count never exceeds the campaign's recipients.
C2_CountsAtMostTotal == campSent + campFailed <= NumRecipients

\* A run resumed after a pause brought the counters to the total.
C2_Witness ==
    /\ start.status = "queued"
    /\ start.sent + start.failed > 0
    /\ pc = "publish"
    /\ campSent + campFailed = NumRecipients

\* The recipients of the run's list from position n on.
ListFrom(n) == {list[j] : j \in n .. Len(list)}

\* The recipients of the run's list before position n.
ListBefore(n) == {list[j] : j \in 1 .. (n - 1)}

\* C3: when the status read at :128 is paused or cancelled the run returns
\* nil at once, writing no recipient, contact or message and sending
\* nothing; a run that has returned does nothing more; the recipients
\* handled before the stop are not pending and the remaining ones are.
C3_StopStep ==
    (pc = "status" /\ campStatus \in {"paused", "cancelled"} /\ WorkerStep)
        => /\ pc' = "idle"
           /\ ReturnValue(exit') = "nil"
           /\ UNCHANGED <<recipients, contacts, messages, sends>>

C3_ReturnedRunIsSilent ==
    (pc = "idle" /\ pc' = "idle")
        => UNCHANGED <<recipients, contacts, messages, sends>>

C3_StoppedState ==
    exit = "stopped" =>
        /\ \A r \in ListFrom(idx) : recipients[r].status = "pending"
        /\ \A r \in ListBefore(idx) : recipients[r].status \in {"sent", "failed"}

C3_StopsOnPausedOrCancelled ==
    /\ [][C3_StopStep /\ C3_ReturnedRunIsSilent]_vars
    /\ []C3_StoppedState

\* A run stopped by a cancellation after handling one recipient, with
\* recipients left.
C3_Witness ==
    /\ exit = "stopped"
    /\ campStatus = "cancelled"
    /\ idx > 1
    /\ idx <= Len(list)

\* A recipient of the run is still to come: the position of the next one.
InIteration ==
    pc \in {"contact", "contact_failed", "send", "message", "recipient",
            "counts", "publish"}

NextPosition == IF InIteration THEN idx + 1 ELSE idx

RecipientAhead ==
    /\ pc \in {"ctx", "status"} \/ InIteration
    /\ NextPosition <= Len(list)

\* C4: while the campaign is paused or cancelled and a recipient of the run
\* is still to come, no step of the run writes the campaign status (the
\* counter writes included) and none touches that recipient or a later one;
\* the run does not begin that recipient's contact resolution.
C4_StepKeepsStatus ==
    (campStatus \in {"paused", "cancelled"} /\ RecipientAhead /\ WorkerStep)
        => /\ campStatus' = campStatus
           /\ \A r \in ListFrom(NextPosition) : recipients'[r] = recipients[r]
           /\ (pc \in {"ctx", "status"} => pc' \in {"status", "idle"})

C4_StatusNotOverwritten == [][C4_StepKeepsStatus]_vars

\* Cancelled while the first of three recipients was being handled: the
\* run stopped before the second, which is pending, and the status stays.
C4_Witness ==
    /\ exit = "stopped"
    /\ campStatus = "cancelled"
    /\ idx = 2
    /\ Len(published) = start.published + 1
    /\ recipients[list[1]].status \in {"sent", "failed"}
    /\ \A r \in ListFrom(2) : recipients[r].status = "pending"

\* C5: a run that set the campaign completed left every recipient that was
\* pending when it started sent or failed; a run that returned leaving one
\* of its recipients pending returned early (pause, cancel, context).
C5_CompletedOnlyAfterAll ==
    /\ RunCompleted =>
            /\ \A r \in Recipients :
                    start.recipients[r].status = "pending"
                        => recipients[r].status \in {"sent", "failed"}
            /\ \A r \in ListFrom(1) : recipients[r].status \in {"sent", "failed"}
    /\ (pc = "idle" /\ \E r \in ListFrom(1) : recipients[r].status = "pending")
            => exit \in {"stopped", "ctx"}

\* A run completed a campaign of which one recipient failed contact
\* resolution, one failed at the gateway and one was sent.
C5_Witness ==
    /\ exit = "completed"
    /\ Len(list) = NumRecipients
    /\ \E r \in Recipients : recipients[r].error_message = "Failed to create contact"
    /\ \E r \in Recipients : recipients[r].status = "sent"
    /\ \E r \in Recipients : recipients[r].error_message \in GatewayErrors

\* C6: a run that returned because the account did not load left the
\* campaign failed, returned an error, and changed no recipient, contact or
\* message, sent nothing and published nothing.
C6_AccountFailure ==
    exit = "account" =>
        /\ campStatus = "failed"
        /\ ReturnValue(exit) = "error"
        /\ recipients = start.recipients
        /\ contacts = start.contacts
        /\ Len(messages) = start.messages
        /\ Len(sends) = start.sends
        /\ Len(published) = start.published

\* The account lookup failed for a run resumed with recipients pending.
C6_Witness ==
    /\ exit = "account"
    /\ start.status = "processing"
    /\ \E r \in Recipients : recipients[r].status = "pending"
    /\ \E r \in Recipients : recipients[r].status = "sent"

\* C7: a run that finds the campaign in a status other than queued or
\* processing returns nil without writing anything: the step that reads the
\* status changes nothing in the store, sends nothing and publishes nothing,
\* and after it the recipients, contacts, messages, counters, completed_at,
\* sends and snapshots are those the run found.
C7_SkipStep ==
    (/\ pc = "load"
     /\ campStatus \in {"completed", "failed", "paused", "cancelled"}
     /\ WorkerStep
     /\ exit' # "notfound")
        => /\ pc' = "idle"
           /\ ReturnValue(exit') = "nil"
           /\ UNCHANGED <<storeVars, sends, published>>

C7_SkippedState ==
    exit = "skip" =>
        /\ start.status \in {"completed", "failed", "paused", "cancelled"}
        /\ recipients = start.recipients
        /\ contacts = start.contacts
        /\ campSent = start.sent
        /\ campFailed = start.failed
        /\ completedAt = start.completedAt
        /\ Len(messages) = start.messages
        /\ Len(sends) = start.sends
        /\ Len(published) = start.published

C7_NotStartableIsNoOp == [][C7_SkipStep]_vars /\ []C7_SkippedState

\* A job redelivered after the campaign completed was skipped.
C7_Witness ==
    /\ exit = "skip"
    /\ start.status = "completed"
    /\ campStatus = "completed"
    /\ start.sent + start.failed = NumRecipients

\* The gateway sends of the current run, and those with a given result.
RunSends == {i \in (start.sends + 1) .. Len(sends) : TRUE}

RunSendsWith(ok) == {i \in RunSends : (sends[i].result = "ok") = ok}

\* C8: a run that loaded zero counters, resolved every contact and
\* completed left the campaign completed with sent_count the number of
\* gateway successes and failed_count the number of gateway failures; each
\* recipient whose send failed is failed with a non-empty error message,
\* each other one is sent.
C8_SendFailuresDoNotFailCampaign ==
    (/\ exit = "completed"
     /\ start.sent = 0 /\ start.failed = 0
     /\ Cardinality(RunSends) = Len(list))
        => /\ campStatus = "completed"
           /\ campSent = Cardinality(RunSendsWith(TRUE))
           /\ campFailed = Cardinality(RunSendsWith(FALSE))
           /\ \A i \in RunSendsWith(FALSE) :
                /\ recipients[sends[i].to].status = "failed"
                /\ recipients[sends[i].to].error_message # ""
           /\ \A i \in RunSendsWith(TRUE) :
                recipients[sends[i].to].status = "sent"

\* Three pending recipients, the gateway failing for the second only.
C8_Witness ==
    /\ exit = "completed"
    /\ jobs = 1
    /\ Len(sends) = 3
    /\ sends[1].result = "ok" /\ sends[2].result # "ok" /\ sends[3].result = "ok"
    /\ campSent = 2 /\ campFailed = 1
    /\ recipients[2].status = "failed"

\* C9: the context is looked at only at the head of an iteration; when it
\* is cancelled there the run returns ctx.Err() and writes nothing, so the
\* campaign status is not changed (it is processing, unless the management
\* API paused or cancelled the campaign meanwhile); no other step returns
\* ctx.Err(); the recipients handled so far keep their outcome and the rest
\* are pending.
C9_ContextStep ==
    WorkerStep =>
        /\ (pc = "ctx" /\ ctxDone)
                => /\ pc' = "idle"
                   /\ ReturnValue(exit') = "ctx.Err()"
                   /\ UNCHANGED <<storeVars, sends, published>>
        /\ (pc' = "idle" /\ ReturnValue(exit') = "ctx.Err()")
                => (pc = "ctx" /\ ctxDone)

C9_ContextState ==
    /\ pc = "ctx" => campStatus \in {"processing", "paused", "cancelled"}
    /\ exit = "ctx" =>
            /\ campStatus \notin {"failed", "completed"}
            /\ \A r \in ListFrom(idx) : recipients[r].status = "pending"
            /\ \A r \in ListBefore(idx) : recipients[r].status \in {"sent", "failed"}

C9_ContextCancellation == [][C9_ContextStep]_vars /\ []C9_ContextState

\* The context was cancelled after the first recipient: the run returned,
\* the campaign is still processing, the other recipients are pending.
C9_Witness ==
    /\ exit = "ctx"
    /\ campStatus = "processing"
    /\ idx = 2
    /\ Len(list) = NumRecipients
    /\ recipients[1].status \in {"sent", "failed"}

\* Gateway sends made to recipient r so far.
SendsTo(r) == Cardinality({i \in 1 .. Len(sends) : sends[i].to = r})

\* C10: over all runs each recipient row is written at most once and each
\* recipient gets at most one gateway send; a run writes and sends only to
\* recipients that were pending when it started; a recipient that is sent
\* or failed is never changed again.
C10_State ==
    \A r \in Recipients : writes[r] <= 1 /\ SendsTo(r) <= 1

C10_Step ==
    /\ \A r \in Recipients :
        /\ recipients'[r] # recipients[r]
                => /\ start.recipients[r].status = "pending"
                   /\ recipients[r].status = "pending"
        /\ recipients[r].status \in {"sent", "failed"}
                => recipients'[r] = recipients[r]
    /\ sends' # sends
        => /\ Len(sends') = Len(sends) + 1
           /\ start.recipients[sends'[Len(sends')].to].status = "pending"
           /\ recipients[sends'[Len(sends')].to].status = "pending"

C10_AtMostOnce == []C10_State /\ [][C10_Step]_vars

\* A third run finished a campaign whose earlier runs had each handled
\* some recipients.
C10_Witness ==
    /\ exit = "completed"
    /\ jobs = 3
    /\ Len(list) = 1
    /\ \A r \in Recipients : writes[r] = 1
    /\ Len(sends) >= 2

\* A phone number without its leading "+", if it has one.
WithoutPlus(p) == IF p # <<>> /\ Head(p) = "+" THEN Tail(p) ELSE p

\* Contacts created since the calls began whose phone number is n.
CreatedFor(n) ==
    {k \in (Len(start.contacts) + 1) .. Len(contacts) : contacts[k] = n}

\* C11: the calls of getOrCreateContact that return a contact for one phone
\* number, written with or without "+", all return the same contact; at
\* most one contact is created for it; a call that finds the number stored,
\* with or without "+", returns that row and creates nothing.
C11_State ==
    /\ \A i, j \in 1 .. Len(calls) :
        (/\ WithoutPlus(calls[i].phone) = WithoutPlus(calls[j].phone)
         /\ calls[i].contact # 0
         /\ calls[j].contact # 0)
            => calls[i].contact = calls[j].contact
    /\ \A p \in PhoneInputs : Cardinality(CreatedFor(WithoutPlus(p))) <= 1

C11_Step ==
    calls' # calls =>
        LET c == calls'[Len(calls')]
            n == WithoutPlus(c.phone)
        IN  /\ Len(contacts') <= Len(contacts) + 1
            /\ (\E k \in 1 .. Len(contacts) :
                    contacts[k] \in {n, <<"+">> \o n})
                => /\ contacts' = contacts
                   /\ c.contact \in 1 .. Len(contacts)
                   /\ contacts[c.contact] \in {n, <<"+">> \o n}

C11_ContactResolutionIdempotent == []C11_State /\ [][C11_Step]_vars

\* The number was not stored; a first call with "+" failed to create it, a
\* second created it, a third without "+" returned the contact created.
C11_Witness ==
    /\ Len(calls) = 3
    /\ start.contacts = <<>>
    /\ calls[1] = [phone |-> <<"+", "1">>, contact |-> 0]
    /\ calls[2] = [phone |-> <<"+", "1">>, contact |-> 1]
    /\ calls[3] = [phone |-> <<"1">>, contact |-> 1]
    /\ contacts = << <<"1">> >>

\* The body with the placeholders {{1}}..{{10}} whose key is among the
\* parameters each replaced by its parameter's value, everything else, the
\* values put in included, left as it is.
RECURSIVE SubstitutedFrom(_, _, _)
SubstitutedFrom(body, i, params) ==
    IF i > Len(body) THEN <<>>
    ELSE LET hits == {k \in 1 .. 10 :
                        Decimal(k) \in DOMAIN params /\ HasAt(body, i, Placeholder(k))}
         IN  IF hits # {}
             THEN LET k == CHOOSE k \in hits : TRUE
                  IN  params[Decimal(k)]
                        \o SubstitutedFrom(body, i + Len(Placeholder(k)), params)
             ELSE <<body[i]>> \o SubstitutedFrom(body, i + 1, params)

\* C12: the rendered content is the body with every {{i}}, i in 1..10 with
\* key i among the parameters, replaced by that parameter's value inserted
\* verbatim, and every other placeholder left literal.
C12_ContentIsSubstitutedBody ==
    render.done => render.content = SubstitutedFrom(render.body, 1, render.params)

\* Recipients of the run's list marked as having failed contact resolution.
ContactFailures ==
    {r \in ListFrom(1) : recipients[r].error_message = "Failed to create contact"}

\* Message records of recipient r.
MessagesOf(r) == {i \in 1 .. Len(messages) : messages[i].recipient = r}

\* C13: when contact resolution fails the recipient is marked failed with
\* the message "Failed to create contact", the run's failed counter goes up
\* by one and its sent counter stays, nothing is sent and no message is
\* created for the recipient, and the run goes on with the next recipient
\* (or to completion after the last); a run that completes has the failure
\* in the failed_count it persists.
C13_Step ==
    /\ (pc = "contact" /\ WorkerStep /\ contact' = 0)
        => /\ pc' = "contact_failed"
           /\ UNCHANGED <<recipients, sends, messages, exit>>
    /\ (pc = "contact_failed" /\ WorkerStep)
        => /\ recipients'[list[idx]].status = "failed"
           /\ recipients'[list[idx]].error_message = "Failed to create contact"
           /\ failedCount' = failedCount + 1
           /\ sentCount' = sentCount
           /\ UNCHANGED <<sends, messages, exit>>
           /\ idx' = idx + 1
           /\ pc' = IF idx < Len(list) THEN "ctx" ELSE "complete"

C13_State ==
    /\ \A r \in Recipients :
        recipients[r].error_message = "Failed to create contact"
            => /\ recipients[r].status = "failed"
               /\ SendsTo(r) = 0
               /\ MessagesOf(r) = {}
    /\ RunCompleted
        => campFailed = start.failed + Cardinality(ContactFailures)
                            + Cardinality(RunSendsWith(FALSE))

C13_ContactFailureIsLocal == [][C13_Step]_vars /\ []C13_State

\* The first recipient failed contact resolution, the run went on, sent to
\* the others and completed.
C13_Witness ==
    /\ exit = "completed"
    /\ Len(list) = NumRecipients
    /\ recipients[1].error_message = "Failed to create contact"
    /\ \A r \in Recipients \ {1} : recipients[r].status = "sent"
    /\ campFailed = 1

\* C15: the job handler calls the campaign processor once per job it is
\* given and returns what the processor returned; Run returns an error only
\* when Consume returned one while the context was not cancelled, and
\* returns nil whenever consumption ended with the context cancelled.
C15_HandlerStep ==
    /\ (pc = "idle" /\ pc' # "idle") =>
           /\ Consuming
           /\ jobs' = jobs + 1
           /\ pc' = "load"
           /\ consumer'.handlerResult = "none"
    /\ (pc # "idle") => jobs' = jobs
    /\ (pc # "idle" /\ pc' = "idle") =>
           consumer'.handlerResult = ReturnValue(exit')

C15_RunStep ==
    (consumer.state = "ended" /\ consumer'.state = "returned") =>
        /\ consumer'.runResult \in {"nil", "error"}
        /\ consumer'.runResult = "error" =>
               consumer.consumeErr # "nil" /\ ~ctxDone
        /\ (consumer.ctxAtEnd \/ ctxDone) => consumer'.runResult = "nil"

C15_State ==
    /\ (pc = "idle" /\ exit # "none") =>
           consumer.handlerResult = ReturnValue(exit)
    /\ consumer.state \in {"ended", "returned"} => pc = "idle"

C15_HandlerAndRunResults ==
    [][C15_HandlerStep /\ C15_RunStep]_vars /\ []C15_State

\* Run has returned nil although Consume returned an error, the context
\* being cancelled, after a job whose processor returned the context's error.
C15_Witness ==
    /\ consumer.state = "returned"
    /\ consumer.consumeErr = "error"
    /\ consumer.runResult = "nil"
    /\ consumer.handlerResult = "ctx.Err()"
    /\ exit = "ctx"

\* C16: from the step that sets the stored status to paused or cancelled
\* under a run, and for as long as the status stays so, the run makes at
\* most one gateway send and writes at most one recipient, and the next
\* status check ends it.
C16_State ==
    stale.on =>
        /\ stale.sends <= 1
        /\ Cardinality(stale.mutated) <= 1

C16_Step ==
    (stale.on /\ pc = "status" /\ pc' # pc) =>
        /\ pc' = "idle"
        /\ exit' = "stopped"
        /\ recipients' = recipients
        /\ sends' = sends

C16_BoundedStaleness == []C16_State /\ [][C16_Step]_vars

\* The status was set in the middle of an iteration; the iteration has made
\* its send and written its recipient and the run is at the next check.
C16_Witness ==
    /\ stale.on
    /\ stale.sends = 1
    /\ Cardinality(stale.mutated) = 1
    /\ pc = "status"

\* The recipient of the iteration under way has had its outcome written.
OutcomeWritten == pc \in {"counts", "publish"}

\* C17: from the load of a run's list on, the recipients of the list before
\* the loop's position are sent or failed and those after it are pending,
\* the one at the position being pending until its outcome is written: the
\* sent/failed ones form a prefix of the list and the pending ones the
\* suffix; a step changes one recipient at most, the one at the position,
\* from pending to sent or failed.
C17_State ==
    /\ \A j \in 1 .. Len(list) :
        /\ j < idx => recipients[list[j]].status \in {"sent", "failed"}
        /\ j > idx => recipients[list[j]].status = "pending"
        /\ (j = idx /\ pc # "idle") =>
               (recipients[list[j]].status # "pending") = OutcomeWritten
    /\ \A i, j \in 1 .. Len(list) :
        (i < j /\ recipients[list[j]].status # "pending")
            => recipients[list[i]].status \in {"sent", "failed"}
    /\ \A i, j \in 1 .. Len(list) : i # j => list[i] # list[j]

C17_Step ==
    \A r \in Recipients :
        recipients'[r] # recipients[r] =>
            /\ idx \in 1 .. Len(list)
            /\ r = list[idx]
            /\ recipients[r].status = "pending"
            /\ recipients'[r].status \in {"sent", "failed"}
            /\ \A q \in Recipients \ {r} : recipients'[q] = recipients[q]

C17_ProcessedInLoadOrder == []C17_State /\ [][C17_Step]_vars

\* The run is in the middle of its list: one recipient done, the second
\* just written, the third untouched.
C17_Witness ==
    /\ Len(list) = 3
    /\ idx = 2
    /\ OutcomeWritten
    /\ recipients[list[1]].status = "failed"
    /\ recipients[list[2]].status = "sent"
    /\ recipients[list[3]].status = "pending"

\* The iteration under way has counted its recipient.
Counted == pc \in {"message", "recipient", "counts", "publish"}

\* The iterations of the run that have counted their recipient.
IterationsCounted == (idx - 1) + (IF Counted THEN 1 ELSE 0)

\* C18: no step lowers the stored sent_count or failed_count; from the load
\* of the campaign on, the run's two counters together exceed the loaded
\* ones by the number of iterations that reached their outcome, neither
\* being below its loaded value; the step that decides an iteration's
\* outcome raises one counter by one and leaves the other: sentCount when
\* the gateway accepted the send, failedCount when it returned an error or
\* when the contact could not be resolved.
C18_StoredCountersStep ==
    /\ campSent' >= campSent
    /\ campFailed' >= campFailed

C18_RunCountersState ==
    (pc \notin {"idle", "load"}) =>
        /\ sentCount >= start.sent
        /\ failedCount >= start.failed
        /\ sentCount + failedCount =
               start.sent + start.failed + IterationsCounted
        /\ campSent <= sentCount
        /\ campFailed <= failedCount

C18_OutcomeStep ==
    /\ (pc = "send" /\ pc' # pc) =>
           LET res == sends'[Len(sends')].result
           IN  /\ Len(sends') = Len(sends) + 1
               /\ res = "ok" =>
                      sentCount' = sentCount + 1 /\ failedCount' = failedCount
               /\ res # "ok" =>
                      failedCount' = failedCount + 1 /\ sentCount' = sentCount
    /\ (pc = "contact_failed" /\ pc' # pc) =>
           failedCount' = failedCount + 1 /\ sentCount' = sentCount
    /\ (pc \notin {"idle", "load", "send", "contact_failed"}) =>
           sentCount' = sentCount /\ failedCount' = failedCount

C18_CountersMonotonic ==
    [][C18_StoredCountersStep /\ C18_OutcomeStep]_vars /\ []C18_RunCountersState

\* Three iterations: a contact failure, a gateway error, an accepted send.
C18_Witness ==
    /\ pc = "publish"
    /\ idx = 3
    /\ start.sent = 0
    /\ start.failed = 0
    /\ sentCount = 1
    /\ failedCount = 2
    /\ campSent = 1
    /\ campFailed = 2
    /\ ContactFailures # {}

\* The recipients whose iteration resolved a contact and wrote the outcome.
Delivered ==
    {r \in Recipients :
        /\ recipients[r].status # "pending"
        /\ recipients[r].error_message # "Failed to create contact"}

\* The results of the gateway sends made to recipient r.
ResultsFor(r) == {sends[i].result : i \in {j \in 1 .. Len(sends) : sends[j].to = r}}

\* What C19 says of a recipient but for the number of message records: one
\* gateway send; every message record of the recipient is outgoing, of type
\* template, with the recipient's status and error text; the recipient is
\* sent, stamped and without error text iff the gateway returned no error,
\* failed with the gateway's error text and unstamped otherwise.
OutcomeRecorded(r) ==
    /\ SendsTo(r) = 1
    /\ \A i \in MessagesOf(r) :
        /\ messages[i].direction = "outgoing"
        /\ messages[i].message_type = "template"
        /\ messages[i].status = recipients[r].status
        /\ messages[i].error_message = recipients[r].error_message
    /\ \A res \in ResultsFor(r) :
        IF res = "ok"
        THEN /\ recipients[r].status = "sent"
             /\ recipients[r].sent_at
             /\ recipients[r].error_message = ""
        ELSE /\ recipients[r].status = "failed"
             /\ ~recipients[r].sent_at
             /\ recipients[r].error_message = res

\* C19 as stated: every recipient whose contact was resolved has exactly one
\* gateway send and exactly one message record, the outcome recorded alike
\* on the message and on the recipient.
C19_ExactlyOneMessage ==
    \A r \in Delivered :
        /\ OutcomeRecorded(r)
        /\ Cardinality(MessagesOf(r)) = 1

\* C19 amended: every recipient whose contact was resolved has exactly one
\* gateway send and at most one message record, none only when the insert
\* at :192 failed (the step at :192 appends the iteration's record or, on
\* failure, nothing; no other step touches the messages); the outcome is
\* recorded alike on the message, when there is one, and on the recipient.
C19_State ==
    \A r \in Delivered :
        /\ OutcomeRecorded(r)
        /\ Cardinality(MessagesOf(r)) <= 1

C19_Step ==
    /\ (pc = "message" /\ pc' # pc) =>
        \/ messages' = messages
        \/ /\ Len(messages') = Len(messages) + 1
           /\ SubSeq(messages', 1, Len(messages)) = messages
           /\ messages'[Len(messages')].recipient = list[idx]
           /\ messages'[Len(messages')].contact_id = contact
           /\ messages'[Len(messages')].status = message.status
           /\ contact # 0
    /\ pc # "message" => messages' = messages

C19_OneSendAtMostOneMessage == []C19_State /\ [][C19_Step]_vars

\* A failed send and an accepted one, both with their message record.
C19_Witness ==
    /\ \E r \in Delivered :
        /\ recipients[r].status = "failed"
        /\ Cardinality(MessagesOf(r)) = 1
    /\ \E r \in Delivered :
        /\ recipients[r].status = "sent"
        /\ Cardinality(MessagesOf(r)) = 1

\* Nothing gets in the way of a run: the loads succeed, the context is not
\* cancelled, nobody pauses or cancels the campaign.
Undisturbed ==
    /\ ~ctxDone
    /\ campStatus \notin {"paused", "cancelled"}
    /\ exit \notin {"notfound", "account", "recipients"}

\* The run has returned success after setting the campaign completed.
CompletedWithSuccess ==
    /\ pc = "idle"
    /\ exit = "completed"
    /\ ReturnValue(exit) = "nil"
    /\ campStatus = "completed"
    /\ completedAt

\* C20: with every call returning, a run that has started returns; and
\* when the loads succeed, the context is never cancelled and the campaign
\* is never paused or cancelled, a run started on a startable campaign
\* sets it completed with completed_at stamped and returns success.
C20_EveryRunTerminates == (pc # "idle") ~> (pc = "idle")

C20_UndisturbedRunCompletes ==
    []Undisturbed =>
        ((pc = "load" /\ Startable(campStatus)) ~> CompletedWithSuccess)

C20_Liveness == C20_EveryRunTerminates /\ C20_UndisturbedRunCompletes

\* An undisturbed run of three recipients has completed and returned.
C20_Witness ==
    /\ CompletedWithSuccess
    /\ ~ctxDone
    /\ jobs = 1
    /\ Len(list) = NumRecipients
    /\ \A r \in Recipients : recipients[r].status \in {"sent", "failed"}

\* The indices in 1..10 the recipient has a parameter for.
PresentIndices ==
    {i \in 1 .. MaxTemplateParams : Decimal(i) \in DOMAIN request.params}

\* The k-th smallest of them.
PresentIndex(k) ==
    CHOOSE i \in PresentIndices :
        Cardinality({j \in PresentIndices : j < i}) = k - 1

\* C21: once sendTemplateMessage has returned, the send operation was
\* called once, whatever it returned; with no parameter keyed in 1..10 no
\* component was sent; otherwise the one component is the body, and its
\* parameters are the texts of the values keyed in 1..10, in ascending
\* index order, one per present index.
C21_BodyParameters ==
    request.result # "none" =>
        /\ request.calls = 1
        /\ PresentIndices = {} => request.components = <<>>
        /\ PresentIndices # {} =>
            /\ Len(request.components) = 1
            /\ request.components[1].type = "body"
            /\ LET ps == request.components[1].parameters IN
                /\ Len(ps) = Cardinality(PresentIndices)
                /\ \A k \in 1 .. Len(ps) :
                    /\ ps[k].type = "text"
                    /\ ps[k].text = request.params[Decimal(PresentIndex(k))]

\* Parameters 2 and 10 with different values, 1 absent, a key 11 present:
\* sent as two body parameters, and the gateway returned an error.
C21_Witness ==
    /\ request.result \in GatewayErrors
    /\ DOMAIN request.params = {Decimal(2), Decimal(10), Decimal(11)}
    /\ request.params[Decimal(2)] # request.params[Decimal(10)]
    /\ Len(request.components) = 1
    /\ Len(request.components[1].parameters) = 2

\* C22: the step that writes status failed is the account load or the
\* recipient-list load failing; with it the run returns an error, having
\* changed no recipient, created no message or contact and made no gateway
\* send; a campaign that could not be loaded is not written at all.
C22_Step ==
    /\ (campStatus' = "failed" /\ campStatus # "failed") =>
        /\ pc \in {"account", "recipients"}
        /\ pc' = "idle"
        /\ exit' = pc
        /\ ReturnValue(exit') = "error"
        /\ recipients' = start.recipients
        /\ contacts' = start.contacts
        /\ Len(messages') = start.messages
        /\ Len(sends') = start.sends
    /\ (pc \in {"account", "recipients"} /\ pc' = "idle") =>
        campStatus' = "failed"
    /\ (pc = "load" /\ pc' = "idle") => UNCHANGED storeVars

C22_State ==
    exit \in {"account", "recipients"} =>
        /\ campStatus = "failed"
        /\ recipients = start.recipients
        /\ Len(messages) = start.messages
        /\ Len(sends) = start.sends

C22_FailedOnlyOnSetupErrors == [][C22_Step]_vars /\ []C22_State

\* The recipient list failed to load for a resumed run, after the campaign
\* had been set processing again.
C22_Witness ==
    /\ exit = "recipients"
    /\ campStatus = "failed"
    /\ jobs = 2
    /\ \E r \in Recipients : recipients[r].status = "failed"
    /\ \E r \in Recipients : recipients[r].status = "pending"

\* The run found no pending recipient and went through to its end.
CompletedEmpty == exit = "completed" /\ list = <<>>

\* C23: a run that loads an empty list of pending recipients (the load not
\* failing) goes from the load to the completion write without entering
\* the loop; once it has returned the campaign is completed with
\* completed_at stamped, the counters are those the run found, no recipient
\* is changed, no gateway send was made and the run's one snapshot has
\* status completed.
C23_Step ==
    /\ (pc = "recipients" /\ PendingOf(recipients) = <<>> /\ pc' # pc) =>
        \/ pc' = "complete" /\ list' = <<>>
        \/ pc' = "idle" /\ exit' = "recipients"
    /\ (pc = "complete" /\ list = <<>> /\ pc' # pc) =>
        /\ pc' = "final"
        /\ campStatus' = "completed"
        /\ completedAt'
        /\ campSent' = campSent
        /\ campFailed' = campFailed
    /\ (pc = "final" /\ list = <<>> /\ pc' # pc) =>
        /\ pc' = "idle"
        /\ exit' = "completed"

C23_State ==
    CompletedEmpty =>
        /\ campStatus = "completed"
        /\ completedAt
        /\ ReturnValue(exit) = "nil"
        /\ campSent = start.sent
        /\ campFailed = start.failed
        /\ recipients = start.recipients
        /\ Len(sends) = start.sends
        /\ Len(published) = start.published + 1
        /\ published[Len(published)].status = "completed"
        /\ published[Len(published)].sent_count = start.sent
        /\ published[Len(published)].failed_count = start.failed

C23_ZeroPendingCompletes == [][C23_Step]_vars /\ []C23_State

\* A campaign left processing with every recipient handled and counted has
\* been completed by a run that found nothing pending.
C23_Witness ==
    /\ CompletedEmpty
    /\ start.status = "processing"
    /\ campSent + campFailed = NumRecipients
    /\ campSent > 0
    /\ campFailed > 0
    /\ jobs = 1

\* The snapshots the run has published.
RunSnapshots == (start.published + 1) .. Len(published)

\* C24: a step publishes one snapshot at most; the snapshot has
\* delivered_count and read_count 0 and the sent and failed counts stored
\* on the campaign, which the run wrote in the step before; published in
\* the loop it has status processing; with status completed it is
\* published after the campaign was set completed and the run returns with
\* it, so that it is the run's last snapshot and its only completed one.
C24_Step ==
    published' # published =>
        LET snapshot == published'[Len(published')] IN
        /\ published' = Append(published, snapshot)
        /\ pc \in {"publish", "final"}
        /\ snapshot.delivered_count = 0
        /\ snapshot.read_count = 0
        /\ snapshot.sent_count = campSent
        /\ snapshot.failed_count = campFailed
        /\ campSent = sentCount
        /\ campFailed = failedCount
        /\ pc = "publish" => snapshot.status = "processing"
        /\ snapshot.status \in {"processing", "completed"}
        /\ snapshot.status = "completed" =>
            /\ pc = "final"
            /\ campStatus = "completed"
            /\ completedAt
            /\ pc' = "idle"
            /\ exit' = "completed"

C24_State ==
    (pc # "load") =>
        /\ \A i \in RunSnapshots :
            published[i].status = "completed" =>
                /\ i = Len(published)
                /\ pc = "idle"
                /\ exit = "completed"
        /\ Cardinality({i \in RunSnapshots :
                            published[i].status = "completed"}) <= 1
        /\ exit = "completed" =>
            /\ RunSnapshots # {}
            /\ published[Len(published)].status = "completed"

C24_SnapshotsFollowCounters == [][C24_Step]_vars /\ []C24_State

\* A completed run of three recipients, one of them failed at contact
\* resolution: two processing snapshots, then the completed one.
C24_Witness ==
    /\ exit = "completed"
    /\ Len(list) = NumRecipients
    /\ Cardinality(ContactFailures) = 1
    /\ Cardinality(RunSnapshots) = NumRecipients
    /\ published[Len(published)].failed_count >= 1
    /\ published[Len(published)].sent_count >= 1

\* The iteration under way is past its insert and left no message record:
\* the insert failed.
InsertFailed ==
    /\ pc \in {"recipient", "counts", "publish"}
    /\ MessagesOf(list[idx]) = {}

\* C25: the insert of the message record is attempted once and, failed or
\* not, changes nothing but the messages and is followed by the recipient
\* update; after a failed insert the recipient is updated to the outcome of
\* the send, the counters, which count the recipient, are stored, the
\* snapshot is published and the loop moves to the next recipient, no
\* message record being written for the recipient later.
C25_Step ==
    /\ (pc = "message" /\ pc' # pc) =>
        /\ pc' = "recipient"
        /\ UNCHANGED <<campStatus, campSent, campFailed, completedAt,
                       recipients, contacts, sends, published, exit,
                       localVars>>
    /\ (InsertFailed /\ pc = "recipient" /\ pc' # pc) =>
        /\ pc' = "counts"
        /\ recipients'[list[idx]].status = message.status
        /\ recipients'[list[idx]].status =
               (IF sends[Len(sends)].result = "ok" THEN "sent" ELSE "failed")
        /\ sends[Len(sends)].to = list[idx]
        /\ messages' = messages
    /\ (InsertFailed /\ pc = "counts" /\ pc' # pc) =>
        /\ pc' = "publish"
        /\ campSent' = sentCount
        /\ campFailed' = failedCount
        /\ sentCount + failedCount = start.sent + start.failed + idx
        /\ messages' = messages
    /\ (InsertFailed /\ pc = "publish" /\ pc' # pc) =>
        /\ Len(published') = Len(published) + 1
        /\ idx' = idx + 1
        /\ pc' = (IF idx < Len(list) THEN "ctx" ELSE "complete")
        /\ messages' = messages

C25_State ==
    \A r \in Delivered : MessagesOf(r) = {} => OutcomeRecorded(r)

C25_MessageInsertFailureIsLocal == [][C25_Step]_vars /\ []C25_State

\* The first recipient's message could not be saved; the recipient is sent
\* and counted all the same and the run went on to save the second one's.
C25_Witness ==
    /\ Len(list) >= 2
    /\ idx >= 2
    /\ MessagesOf(list[1]) = {}
    /\ recipients[list[1]].status = "sent"
    /\ campSent >= 1
    /\ MessagesOf(list[2]) # {}
    /\ Len(published) >= start.published + 2

\* C26: a step of the run never writes processing or completed over a
\* campaign status that is paused or cancelled.
C26_Step ==
    (campStatus \in {"paused", "cancelled"} /\ pc # "idle" /\ pc' # pc)
        => campStatus' \notin {"processing", "completed"}

C26_ExternalStopNeverOverwritten == [][C26_Step]_vars

\* The recipients of the campaign with this status.
WithStatus(status) == {r \in Recipients : recipients[r].status = status}

\* C27: whenever a run has ended by completion, by an observed pause or
\* cancel, or by context cancellation, the stored sent_count is the number
\* of sent recipients and the stored failed_count the number of failed
\* ones.
C27_CountersAgreeWithRecipients ==
    (pc = "idle" /\ exit \in {"completed", "stopped", "ctx"}) =>
        /\ campSent = Cardinality(WithStatus("sent"))
        /\ campFailed = Cardinality(WithStatus("failed"))

\* The contacts of cs whose number is phone, with or without the "+".
SameNumber(cs, phone) ==
    {i \in 1 .. Len(cs) : Normalize(cs[i]) = Normalize(phone)}

\* Both calls have returned, they were for the same number, and the table
\* had at most one contact for it before.
RaceOver ==
    /\ race.callers # <<>>
    /\ \A p \in Callers : race.callers[p].pc = "done"
    /\ Normalize(race.callers[1].phone) = Normalize(race.callers[2].phone)
    /\ Cardinality(SameNumber(start.contacts, race.callers[1].phone)) <= 1

\* C28: when two runs have interleaved getOrCreateContact for the same
\* number, at most one contact exists for the number and both calls
\* returned that contact.
C28_UniqueUnderConcurrency ==
    RaceOver =>
        /\ Cardinality(SameNumber(contacts, race.callers[1].phone)) <= 1
        /\ race.callers[1].contact # 0
        /\ race.callers[1].contact = race.callers[2].contact

====
